---- MODULE Spec2Model ----
(***************************************************************************)
(* Model of moja_pogoda.py: the astro score, the intensity bar, the night  *)
(* window selection and the two rendering passes (show_now, show_tonight). *)
(*                                                                         *)
(* Numbers.  Python floats are modelled in fixed point.  The arguments of  *)
(* astro_score (cloud, wind, vis_km) are held in HALVES (the value 7.5 is  *)
(* 15), its intermediate terms in QUARTERS, because (wind-15)*1.5 of a     *)
(* half-valued wind is a multiple of 1/4.  Halves and quarters of this     *)
(* magnitude are exact binary floats, so the fixed-point arithmetic is     *)
(* the float arithmetic of the program.                                    *)
(***************************************************************************)
EXTENDS Integers, Sequences, FiniteSets, TLC

VARIABLES pc, args, locals, ret, stdout

vars == <<pc, args, locals, ret, stdout>>

\* Python's None; a number n of the JSON payload (or of an optional argument)
\* is Num(n) and a list l is List(l), so that "is None" is a comparison of
\* records
None == [none |-> TRUE]

Num(n) == [num |-> n]

List(l) == [list |-> l]

NoLocals == [none |-> TRUE]

\* ------------------------------------------------------------------ bounds
\* inputs this far beyond the documented ranges are enumerated (in halves)
MaxOver == 5
\* largest wind enumerated, in halves of km/h (22 km/h)
MaxWindH == 44
\* largest visibility enumerated, in halves of km (17 km)
MaxVisH == 34
\* an "arbitrarily large" magnitude, in halves
Huge == 1000000
\* largest bar width enumerated (show_tonight uses 12, show_now 20)
MaxWidth == 21

\* ------------------------------------------------------- Python built-ins
Max(a, b) == IF a >= b THEN a ELSE b

Min(a, b) == IF a <= b THEN a ELSE b

\* int(n/d) for d > 0: Python's int() of a float truncates toward zero
IntTrunc(n, d) == IF n >= 0 THEN n \div d ELSE -((-n) \div d)

\* int(round(n/d)) for d > 0: Python 3 round() rounds to nearest, ties to even
IntRound(n, d) ==
    LET f == n \div d
        r == n % d
    IN  IF 2 * r > d THEN f + 1
        ELSE IF 2 * r < d THEN f
        ELSE IF f % 2 = 0 THEN f ELSE f + 1

\* ------------------------------------------------------------ astro_score
\* mutant: the final clamp is dropped
astro_score_noclamp(cloud, wind, vis_km) ==
    LET base      == 400 - 2 * cloud
        wind_pen  == Max(0, (wind - 30) * 3)
        vis_boost == Min(40, Max(0, (vis_km - 10) * 2))
    IN  IntTrunc(base - wind_pen + vis_boost, 4)

\* mutant: every term is truncated to an integer before combining
astro_score_perterm(cloud, wind, vis_km) ==
    LET base      == IntTrunc(400 - 2 * cloud, 4)
        wind_pen  == IntTrunc(Max(0, (wind - 30) * 3), 4)
        vis_boost == IntTrunc(Min(40, Max(0, (vis_km - 10) * 2)), 4)
    IN  Max(0, Min(100, base - wind_pen + vis_boost))

\* mutant: the wind term is added instead of subtracted
astro_score_windsign(cloud, wind, vis_km) ==
    LET base      == 400 - 2 * cloud
        wind_pen  == Max(0, (wind - 30) * 3)
        vis_boost == Min(40, Max(0, (vis_km - 10) * 2))
    IN  Max(0, Min(100, IntTrunc(base + wind_pen + vis_boost, 4)))

\* cloud, wind, vis_km in halves; base, wind_pen, vis_boost in quarters:
\*   base      = 100 - cloud            = (400 - 2*cloud)/4
\*   wind_pen  = max(0, (wind-15)*1.5)  = max(0, (wind_h - 30)*3)/4
\*   vis_boost = min(10, max(0, vis-5)) = min(40, max(0, (vis_h - 10)*2))/4
astro_score(cloud, wind, vis_km) ==
    LET base      == 400 - 2 * cloud
        wind_pen  == Max(0, (wind - 30) * 3)
        vis_boost == Min(40, Max(0, (vis_km - 10) * 2))
    IN  Max(0, Min(100, IntTrunc(base - wind_pen + vis_boost, 4)))

\* -------------------------------------------------------------------- bar
Repeat(ch, n) == [i \in 1..n |-> ch]

\* mutant: the fill is floored instead of rounded
bar_floor(score, width) ==
    LET filled == (score * width) \div 100
    IN  Repeat("*", filled) \o Repeat(".", width - filled)

\* score/100*width is formed in floating point and then rounded; for the
\* widths enumerated here (and for the widths 12 and 20 the program uses)
\* the float product rounds as the exact quotient score*width/100 does.
\* A negative repeat count yields the empty string in Python; Repeat does
\* the same (1..n is empty).
bar(score, width) ==
    LET filled == IntRound(score * width, 100)
    IN  Repeat("*", filled) \o Repeat(".", width - filled)

\* ======================================================================
\* Specification of astro_score as a function of its inputs
\* ======================================================================
CloudVals ==
    (-MaxOver .. MaxOver) \cup (100 - MaxOver .. 100 + MaxOver)
        \cup (200 - MaxOver .. 200 + MaxOver) \cup {-Huge, Huge}

WindVals == (-MaxOver .. MaxWindH) \cup {-Huge, Huge}

VisVals == (-MaxOver .. MaxVisH) \cup {-Huge, Huge}

InitScore ==
    /\ pc = "astro_score"
    /\ args \in [cloud : CloudVals, wind : WindVals, vis_km : VisVals]
    /\ locals = NoLocals
    /\ ret = None
    /\ stdout = <<>>

AstroScoreCall ==
    /\ pc = "astro_score"
    /\ ret' = astro_score(args.cloud, args.wind, args.vis_km)
    /\ pc' = "scored"
    /\ UNCHANGED <<args, locals, stdout>>

NextScore == AstroScoreCall

SpecScore == InitScore /\ [][NextScore]_vars

\* ======================================================================
\* Specification of bar as a function of its inputs
\* ======================================================================
InitBar ==
    /\ pc = "bar"
    /\ args \in [score : 0 .. 100, width : 0 .. MaxWidth]
    /\ locals = NoLocals
    /\ ret = None
    /\ stdout = <<>>

BarCall ==
    /\ pc = "bar"
    /\ ret' = bar(args.score, args.width)
    /\ pc' = "barred"
    /\ UNCHANGED <<args, locals, stdout>>

NextBar == BarCall

SpecBar == InitBar /\ [][NextBar]_vars

\* ======================================================================
\* Timestamps and the night window
\* ======================================================================
\* An ISO-8601 local timestamp "YYYY-MM-DDTHH:MM" is the triple
\* <<day number, hour, minute>> of its fields.
\* datetime.fromisoformat: the datetime with those fields
fromisoformat(s) == [date |-> s[1], hour |-> s[2], minute |-> s[3]]

\* datetime.__lt__ on naive datetimes: chronological (lexicographic) order
DtLess(a, b) ==
    \/ a.date < b.date
    \/ a.date = b.date /\ a.hour < b.hour
    \/ a.date = b.date /\ a.hour = b.hour /\ a.minute < b.minute

DtLeq(a, b) == a = b \/ DtLess(a, b)

\* list(range(n)): the 0-based indices 0 .. n-1
Range(n) == [i \in 1 .. n |-> i - 1]

\* datetime.combine(today, datetime.min.time()).replace(hour=18)
window_start(today) == [date |-> today, hour |-> 18, minute |-> 0]

\* datetime.combine(today+timedelta(days=1), datetime.min.time()).replace(hour=8)
window_end(today) == [date |-> today + 1, hour |-> 8, minute |-> 0]

\* mutant: the end of the window is included (t <= end)
in_window_closed(t, start, end) == DtLeq(start, t) /\ DtLeq(t, end)

\* t >= start and t < end
in_window(t, start, end) == DtLeq(start, t) /\ DtLess(t, end)

\* mutant: no fallback to the full index list
or_all_nofallback(idxs, n) == idxs

\* idxs or list(range(len(times))): an empty list is falsy
or_all(idxs, n) == IF idxs = <<>> THEN Range(n) ELSE idxs

\* indices are Python's (0-based): index i is element i+1 of the sequence
tonight_indexes(times) ==
    LET dt == [k \in 1 .. Len(times) |-> fromisoformat(times[k])]
    IN  IF Len(dt) = 0 THEN Range(Len(times))
        ELSE LET today == dt[1].date
                 start == window_start(today)
                 end   == window_end(today)
                 idxs  == SelectSeq(Range(Len(dt)),
                                    LAMBDA i : in_window(dt[i + 1], start, end))
             IN  or_all(idxs, Len(times))

\* ------------------------------------------------------------------ bounds
\* longest list of timestamps given to tonight_indexes
MaxLen == 3
\* last day number of the enumerated timestamps (days 0 .. MaxDay)
MaxDay == 1

\* hours and minutes around the two window boundaries
Hours == {7, 8, 17, 18}

Minutes == {0, 30}

IsoTimes == {<<d, h, m>> : d \in 0 .. MaxDay, h \in Hours, m \in Minutes}

\* ======================================================================
\* Specification of tonight_indexes as a function of its input (any order)
\* ======================================================================
InitNight ==
    /\ pc = "tonight_indexes"
    /\ \E n \in 0 .. MaxLen : \E tm \in [1 .. n -> IsoTimes] :
          args = [times |-> tm]
    /\ locals = NoLocals
    /\ ret = None
    /\ stdout = <<>>

TonightIndexesCall ==
    /\ pc = "tonight_indexes"
    /\ ret' = tonight_indexes(args.times)
    /\ pc' = "indexed"
    /\ UNCHANGED <<args, locals, stdout>>

NextNight == TonightIndexesCall

SpecNight == InitNight /\ [][NextNight]_vars

\* ======================================================================
\* show_tonight
\* ======================================================================
\* mutant: the row limit is tested with > (one row too many)
limit_reached_gt(limit, shown) == limit # None /\ shown > limit.num

\* limit is not None and shown >= limit
limit_reached(limit, shown) == limit # None /\ shown >= limit.num

\* mutant: a later sample of equal score replaces the pick (>=)
pick_ge(best, sc, t) ==
    IF sc >= best.score THEN [score |-> sc, time |-> t] ELSE best

\* if sc > best[0]: best = (sc, t); best is the pair (score, time)
pick(best, sc, t) ==
    IF sc > best.score THEN [score |-> sc, time |-> t] ELSE best

\* the body of the loop for index i, when cloud[i] and wind[i] are numbers.
\* cloud in halves of a percent, wind in halves of km/h, visibility in
\* metres (multiples of 500, so vis/1000.0 is a whole number of halves).
scan_body(h, i, st) ==
    LET t  == fromisoformat(h.time[i + 1])
        cc == IntRound(h.cloudcover[i + 1].num, 2)
        ws == h.wind_speed_10m[i + 1].num
        vk == IF h.visibility = None \/ h.visibility.list[i + 1] = None
              THEN None
              ELSE Num(h.visibility.list[i + 1].num \div 500)
        tp == IF h.temperature_2m # None /\ h.temperature_2m.list # <<>>
                 /\ h.temperature_2m.list[i + 1] # None
              THEN h.temperature_2m.list[i + 1]
              ELSE None
        sc == astro_score(2 * cc, ws, IF vk # None THEN vk.num ELSE 20)
    IN  [shown |-> st.shown + 1,
         best  |-> pick(st.best, sc, t),
         rows  |-> Append(st.rows,
                          [kind |-> "row", time |-> <<t.hour, t.minute>>,
                           cc |-> cc, ws |-> ws, vk |-> vk, tp |-> tp,
                           sc |-> sc, bar |-> bar(sc, 12)]),
         err   |-> FALSE]

\* the for loop over idxs from position k on.  int(round(None)) and
\* float(None) raise TypeError, which nothing in the program catches.
RECURSIVE scan(_, _, _, _, _)
scan(h, limit, idxs, k, st) ==
    IF k > Len(idxs) THEN st
    ELSE IF limit_reached(limit, st.shown) THEN st
    ELSE IF h.cloudcover[idxs[k] + 1] = None \/ h.wind_speed_10m[idxs[k] + 1] = None
         THEN [st EXCEPT !.err = TRUE]
    ELSE scan(h, limit, idxs, k + 1, scan_body(h, idxs[k], st))

\* ------------------------------------------------------------------ bounds
\* longest hourly series given to show_tonight
MaxRows == 2
\* largest --limit enumerated (besides None, -1 and 0)
MaxLimit == 3

\* the hourly payload has whole hours, in chronological order
HourlyTimes == {<<d, h, 0>> : d \in 0 .. MaxDay, h \in Hours}

\* one hour of the payload: cloud (halves of %), wind (halves of km/h),
\* visibility (m), temperature; scores 100, 20, 0, -, -, 87
Samples ==
    { [cloudcover |-> Num(20),  wind |-> Num(6),  visibility |-> Num(20000), temperature |-> Num(5)],
      [cloudcover |-> Num(160), wind |-> Num(10), visibility |-> Num(5000),  temperature |-> None],
      [cloudcover |-> Num(200), wind |-> Num(0),  visibility |-> Num(0),     temperature |-> Num(5)],
      [cloudcover |-> None,     wind |-> Num(6),  visibility |-> Num(20000), temperature |-> Num(5)],
      [cloudcover |-> Num(20),  wind |-> None,    visibility |-> Num(5000),  temperature |-> Num(5)],
      [cloudcover |-> Num(21),  wind |-> Num(40), visibility |-> None,       temperature |-> None] }

LimitVals == {None} \cup {Num(k) : k \in -1 .. MaxLimit}

Hourly(tm, smp, hasVis, hasTemp) ==
    [time           |-> tm,
     cloudcover     |-> [i \in 1 .. Len(tm) |-> smp[i].cloudcover],
     wind_speed_10m |-> [i \in 1 .. Len(tm) |-> smp[i].wind],
     visibility     |-> IF hasVis
                        THEN List([i \in 1 .. Len(tm) |-> smp[i].visibility])
                        ELSE None,
     temperature_2m |-> IF hasTemp
                        THEN List([i \in 1 .. Len(tm) |-> smp[i].temperature])
                        ELSE None]

InitTonight ==
    /\ pc = "show_tonight"
    /\ \E n \in 0 .. MaxRows :
       \E tm \in {q \in [1 .. n -> HourlyTimes] :
                     \A i \in 1 .. n - 1 :
                        DtLess(fromisoformat(q[i]), fromisoformat(q[i + 1]))} :
       \E smp \in [1 .. n -> Samples] :
       \E hasVis \in BOOLEAN, hasTemp \in BOOLEAN, limit \in LimitVals :
          args = [fc |-> [hourly |-> Hourly(tm, smp, hasVis, hasTemp)],
                  limit |-> limit]
    /\ locals = NoLocals
    /\ ret = None
    /\ stdout = <<>>

\* best[1] is a datetime or None; a datetime is always truthy
ShowTonight ==
    /\ pc = "show_tonight"
    /\ LET h    == args.fc.hourly
           idxs == tonight_indexes(h.time)
           st   == scan(h, args.limit, idxs, 1,
                        [shown |-> 0,
                         best  |-> [score |-> -1, time |-> None],
                         rows  |-> <<>>,
                         err   |-> FALSE])
       IN  /\ locals' = [idxs |-> idxs, shown |-> st.shown, best |-> st.best]
           /\ stdout' =
                 << [kind |-> "header"], [kind |-> "rule"] >> \o st.rows
                    \o (IF ~st.err /\ st.best.time # None
                        THEN << [kind |-> "best",
                                 time |-> <<st.best.time.date, st.best.time.hour,
                                            st.best.time.minute>>,
                                 score |-> st.best.score] >>
                        ELSE << >>)
           /\ pc' = IF st.err THEN "TypeError" ELSE "shown_tonight"
    /\ UNCHANGED <<args, ret>>

NextTonight == ShowTonight

SpecTonight == InitTonight /\ [][NextTonight]_vars

\* ======================================================================
\* show_now
\* ======================================================================
\* dirs[int((deg%360)/45+0.5)%8], deg in whole degrees
fmt_dir(deg) ==
    IF deg = None THEN "-"
    ELSE << "N", "NE", "E", "SE", "S", "SW", "W", "NW" >>
            [(IntTrunc(2 * (deg.num % 360) + 45, 90) % 8) + 1]

\* mutant: anything but is_day == 1 counts as night
is_night_not1(is_day) == is_day # Num(1)

\* is_day == 0
is_night(is_day) == is_day = Num(0)

\* cur = fc.get("current", {}); a key the payload lacks reads as None.
\* CC in halves of a percent, WS in halves of km/h, VI in metres.
CurVals ==
    [temperature_2m       : {None, Num(5)},
     apparent_temperature : {None, Num(3)},
     cloud_cover          : {None, Num(0), Num(75)},
     wind_speed_10m       : {None, Num(40)},
     wind_direction_10m   : {None, Num(100)},
     visibility           : {None, Num(20000)},
     is_day               : {None, Num(0), Num(1)}]

InitNow ==
    /\ pc = "show_now"
    /\ \E cur \in CurVals : args = [fc |-> [current |-> cur]]
    /\ locals = NoLocals
    /\ ret = None
    /\ stdout = <<>>

ShowNow ==
    /\ pc = "show_now"
    /\ LET cur    == args.fc.current
           T      == cur.temperature_2m
           Tw     == cur.apparent_temperature
           CC     == cur.cloud_cover
           WS     == cur.wind_speed_10m
           WD     == cur.wind_direction_10m
           VI     == cur.visibility
           vis_km == IF VI # None THEN VI.num \div 500 ELSE 20
           cloud  == IF CC # None THEN IntRound(CC.num, 2) ELSE 50
           wind   == IF WS # None THEN WS.num ELSE 10
           score  == astro_score(2 * cloud, wind, vis_km)
       IN  /\ locals' = [cloud |-> cloud, wind |-> wind, vis_km |-> vis_km,
                         score |-> score]
           /\ stdout' =
                 << [kind |-> "title"], [kind |-> "localtime"],
                    [kind |-> "fields", cloud |-> cloud, wind |-> wind,
                     dir |-> fmt_dir(WD), vis_km |-> vis_km, T |-> T, Tw |-> Tw] >>
                    \o (IF is_night(cur.is_day)
                        THEN << [kind |-> "score", score |-> score,
                                 bar |-> bar(score, 20)] >>
                        ELSE << [kind |-> "day"] >>)
    /\ pc' = "shown_now"
    /\ UNCHANGED <<args, ret>>

NextNow == ShowNow

SpecNow == InitNow /\ [][NextNow]_vars

\* C1: astro_score returns an integer in [0,100] for every numeric input
\* triple, in range or out of range (negative, above 100, arbitrarily large).
C1_ScoreInRange == pc = "scored" => ret \in 0 .. 100

\* an out-of-range triple (negative cloud, huge visibility) has been scored
C1_Witness ==
    /\ pc = "scored"
    /\ args.cloud < 0
    /\ args.vis_km = Huge
    /\ ret = 100

\* C2: astro_score equals clamp_0_100(trunc(raw)), raw = (100 - cloud)
\* - max(0, (wind-15)*1.5) + min(10, max(0, vis_km-5)), truncated toward
\* zero once, after combining; score(0,0,15) = 100, score(100,0,0) = 0 and
\* score(50,20,10) = 47.  The reference is stated without computing a
\* quotient: q = trunc(raw) iff q lies between 0 and raw and |raw - q| < 1,
\* and the clamp of q is 0 iff raw < 1 and 100 iff raw >= 100.  raw is in
\* eighths here (halves in, so every term is a multiple of 1/8).
C2_raw8 ==
    LET pen8 == IF 3 * (2 * args.wind - 60) > 0 THEN 3 * (2 * args.wind - 60) ELSE 0
        d8   == 4 * args.vis_km - 40
        bon8 == IF d8 < 0 THEN 0 ELSE IF d8 > 80 THEN 80 ELSE d8
    IN  (800 - 4 * args.cloud) - pen8 + bon8

C2_MatchesReference ==
    pc = "scored" =>
        /\ ret \in Int
        /\ \/ ret = 0 /\ C2_raw8 < 8
           \/ ret = 100 /\ C2_raw8 >= 800
           \/ /\ 0 < ret /\ ret < 100
              /\ 8 * ret <= C2_raw8 /\ C2_raw8 < 8 * (ret + 1)
        /\ (args.cloud = 0 /\ args.wind = 0 /\ args.vis_km = 30) => ret = 100
        /\ (args.cloud = 200 /\ args.wind = 0 /\ args.vis_km = 0) => ret = 0
        /\ (args.cloud = 100 /\ args.wind = 40 /\ args.vis_km = 20) => ret = 47

\* score(50, 20, 10): raw = 47.5, truncated once to 47
C2_Witness ==
    /\ pc = "scored"
    /\ args.cloud = 100 /\ args.wind = 40 /\ args.vis_km = 20
    /\ ret = 47

\* C3: the final (truncated, clamped) score is non-increasing in cloud,
\* non-increasing in wind from 15 km/h up, and non-decreasing in visibility
\* up to 15 km, the other two arguments being fixed.
C3_Monotone ==
    pc = "scored" =>
        /\ \A c2 \in CloudVals :
              args.cloud <= c2 => ret >= astro_score(c2, args.wind, args.vis_km)
        /\ \A w2 \in WindVals :
              (30 <= args.wind /\ args.wind <= w2)
                  => ret >= astro_score(args.cloud, w2, args.vis_km)
        /\ \A v2 \in VisVals :
              (args.vis_km <= v2 /\ v2 <= 30)
                  => ret <= astro_score(args.cloud, args.wind, v2)

\* a wind above the threshold whose increase strictly lowers the score
C3_Witness ==
    /\ pc = "scored"
    /\ args.cloud = 100 /\ args.wind = 32 /\ args.vis_km = 20
    /\ ret = 53
    /\ astro_score(args.cloud, 36, args.vis_km) < ret

\* C10: for score in [0,100] and width >= 0, bar(score, width) has exactly
\* width characters, filled marks first and empty marks after, the number
\* of filled marks being score/100*width rounded to a nearest integer, in
\* [0, width], 0 for score 0 and width for score 100.
C10_BarShape ==
    pc = "barred" =>
        /\ Len(ret) = args.width
        /\ \E filled \in 0 .. args.width :
              /\ \A i \in 1 .. Len(ret) : ret[i] = IF i <= filled THEN "*" ELSE "."
              /\ 100 * filled - args.score * args.width <= 50
              /\ args.score * args.width - 100 * filled <= 50
              /\ args.score = 0 => filled = 0
              /\ args.score = 100 => filled = args.width

\* bar(47, 12): 5.64 rounds up to 6 filled marks
C10_Witness ==
    /\ pc = "barred"
    /\ args.score = 47 /\ args.width = 12
    /\ ret = <<"*", "*", "*", "*", "*", "*", ".", ".", ".", ".", ".", ".">>

\* the window of the first sample's date, stated in minutes since day 0
C4_Stamp(iso) == (iso[1] * 24 + iso[2]) * 60 + iso[3]

C4_InWindow(times, i) ==
    /\ C4_Stamp(times[i + 1]) >= (times[1][1] * 24 + 18) * 60
    /\ C4_Stamp(times[i + 1]) < ((times[1][1] + 1) * 24 + 8) * 60

C5_EmptyIffEmpty ==
    pc = "indexed" =>
        /\ (ret = <<>>) <=> (args.times = <<>>)
        /\ (\A i \in 0 .. Len(args.times) - 1 : ~C4_InWindow(args.times, i))
              => ret = [k \in 1 .. Len(args.times) |-> k - 1]

\* two samples, both outside the window: the fallback returns both indices
C5_Witness ==
    /\ pc = "indexed"
    /\ args.times = << <<0, 8, 0>>, <<1, 8, 30>> >>
    /\ ret = <<0, 1>>

\* the score of hourly sample i (0-based) of the payload, every number
\* being present: cloud rounded to a whole percent, visibility in km
C6_Score(i) ==
    LET h == args.fc.hourly
    IN  astro_score(2 * IntRound(h.cloudcover[i + 1].num, 2),
                    h.wind_speed_10m[i + 1].num,
                    IF h.visibility = None \/ h.visibility.list[i + 1] = None
                    THEN 20
                    ELSE h.visibility.list[i + 1].num \div 500)

C6_Time(i) == fromisoformat(args.fc.hourly.time[i + 1])

C6_Ended == pc \in {"shown_tonight", "TypeError"}

\* C6: the best-pick scan of show_tonight yields, for the samples it has
\* scanned, the maximal score and the timestamp of the first (and, the
\* series being chronological, earliest) sample that has it; no pick when
\* nothing was scanned; a single sample's own score and timestamp, also
\* when that score is 0.  The summary line shows that pick.
C6_BestPick ==
    C6_Ended =>
        LET n    == locals.shown
            idxs == locals.idxs
            best == locals.best
        IN  /\ n = 0 =>
                 /\ best = [score |-> -1, time |-> None]
                 /\ \A l \in 1 .. Len(stdout) : stdout[l].kind # "best"
            /\ n > 0 =>
                 \E k \in 1 .. n :
                    /\ best = [score |-> C6_Score(idxs[k]), time |-> C6_Time(idxs[k])]
                    /\ \A j \in 1 .. n : C6_Score(idxs[j]) <= best.score
                    /\ \A j \in 1 .. k - 1 : C6_Score(idxs[j]) < best.score
                    /\ \A j \in 1 .. n :
                          C6_Score(idxs[j]) = best.score
                              => DtLeq(best.time, C6_Time(idxs[j]))
            /\ n = 1 =>
                 best = [score |-> C6_Score(idxs[1]), time |-> C6_Time(idxs[1])]
            /\ (pc = "shown_tonight" /\ n > 0) =>
                 /\ stdout[Len(stdout)].kind = "best"
                 /\ stdout[Len(stdout)].score = best.score
                 /\ stdout[Len(stdout)].time
                       = <<best.time.date, best.time.hour, best.time.minute>>

\* two scanned samples tie at the maximal score 100: the earlier is picked
C6_Witness ==
    /\ pc = "shown_tonight"
    /\ locals.shown = 2
    /\ C6_Score(locals.idxs[1]) = 100
    /\ C6_Score(locals.idxs[2]) = 100
    /\ locals.best = [score |-> 100, time |-> C6_Time(locals.idxs[1])]
    /\ stdout[Len(stdout)].kind = "best"

\* C7 (as claimed): an absent numeric field never becomes a failure; in now
\* mode and in tonight mode an absent cloud cover is scored as 50, an absent
\* wind as 5.0 and an absent visibility as 10.0 km, and the pass reaches no
\* error state for any combination of absent values.
C7_MissingFieldNeverFails ==
    /\ pc # "TypeError"
    /\ pc = "shown_tonight" =>
          \A k \in 1 .. locals.shown :
             LET h == args.fc.hourly
                 i == locals.idxs[k]
                 c == h.cloudcover[i + 1]
                 w == h.wind_speed_10m[i + 1]
             IN  stdout[2 + k].sc =
                    astro_score(IF c = None THEN 100 ELSE 2 * IntRound(c.num, 2),
                                IF w = None THEN 10 ELSE w.num,
                                IF h.visibility = None \/ h.visibility.list[i + 1] = None
                                THEN 20
                                ELSE h.visibility.list[i + 1].num \div 500)
    /\ pc = "shown_now" =>
          LET cur == args.fc.current
          IN  locals.score =
                 astro_score(IF cur.cloud_cover = None THEN 100
                             ELSE 2 * IntRound(cur.cloud_cover.num, 2),
                             IF cur.wind_speed_10m = None THEN 10
                             ELSE cur.wind_speed_10m.num,
                             IF cur.visibility = None THEN 20
                             ELSE cur.visibility.num \div 500)

\* the rows of stdout (after the header and the rule) are those of the
\* first m selected samples, in the selection's order
C8_RowsAreFirst(m) ==
    /\ Len(SelectSeq(stdout, LAMBDA l : l.kind = "row")) = m
    /\ \A k \in 1 .. m :
          /\ stdout[2 + k].kind = "row"
          /\ stdout[2 + k].time
                = <<C6_Time(locals.idxs[k]).hour, C6_Time(locals.idxs[k]).minute>>
          /\ stdout[2 + k].sc = C6_Score(locals.idxs[k])

\* the last line is the BestPick line of the first m selected samples
C8_BestOfFirst(m) ==
    /\ stdout[Len(stdout)].kind = "best"
    /\ \A j \in 1 .. m : C6_Score(locals.idxs[j]) <= stdout[Len(stdout)].score
    /\ \E j \in 1 .. m :
          /\ C6_Score(locals.idxs[j]) = stdout[Len(stdout)].score
          /\ stdout[Len(stdout)].time
                = <<C6_Time(locals.idxs[j]).date, C6_Time(locals.idxs[j]).hour,
                    C6_Time(locals.idxs[j]).minute>>

\* C8 (as claimed): show_tonight outputs one row per sample selected by
\* tonight_indexes, in the selection's order, and then one BestPick line
\* whose pick is the maximum-score sample of the whole selected set, for
\* every value of limit.  (No BestPick line is asked of an empty selection.)
C8_OneRowPerSelected ==
    pc = "shown_tonight" =>
        /\ locals.idxs = tonight_indexes(args.fc.hourly.time)
        /\ C8_RowsAreFirst(Len(locals.idxs))
        /\ Len(locals.idxs) > 0 => C8_BestOfFirst(Len(locals.idxs))

\* the number of selected samples the limit admits
C8_Admitted ==
    IF args.limit = None THEN Len(locals.idxs)
    ELSE IF args.limit.num <= 0 THEN 0
    ELSE IF args.limit.num < Len(locals.idxs) THEN args.limit.num
    ELSE Len(locals.idxs)

\* selected sample k has an absent cloud cover or wind speed
C8_Unscorable(k) ==
    \/ args.fc.hourly.cloudcover[locals.idxs[k] + 1] = None
    \/ args.fc.hourly.wind_speed_10m[locals.idxs[k] + 1] = None

\* C8 (amended): show_tonight outputs one row per sample for the first
\* min(max(limit, 0), n) of the n selected samples (all n when limit is
\* None), in the selection's order, stopping with a TypeError at the first
\* of them whose cloud cover or wind speed is absent; a pass that completes
\* then outputs one BestPick line iff it output at least one row, and its
\* pick is the maximum-score sample of the rows output.
C8_RowsUpToLimit ==
    C6_Ended =>
        /\ locals.idxs = tonight_indexes(args.fc.hourly.time)
        /\ (pc = "TypeError") <=> (\E k \in 1 .. C8_Admitted : C8_Unscorable(k))
        /\ pc = "shown_tonight" =>
              /\ C8_RowsAreFirst(C8_Admitted)
              /\ C8_Admitted > 0 => C8_BestOfFirst(C8_Admitted)
              /\ C8_Admitted = 0 =>
                    \A l \in 1 .. Len(stdout) : stdout[l].kind # "best"
        /\ pc = "TypeError" =>
              /\ \E k \in 1 .. C8_Admitted :
                    /\ C8_Unscorable(k)
                    /\ \A j \in 1 .. k - 1 : ~C8_Unscorable(j)
                    /\ C8_RowsAreFirst(k - 1)
              /\ \A l \in 1 .. Len(stdout) : stdout[l].kind # "best"

\* limit 1 of two selected samples: one row, and the pick is that row's 20
\* although the second selected sample scores 100
C8_Witness ==
    /\ pc = "shown_tonight"
    /\ args.limit = Num(1)
    /\ Len(locals.idxs) = 2
    /\ Len(stdout) = 4
    /\ stdout[3].sc = 20
    /\ ~C8_Unscorable(2)
    /\ C6_Score(locals.idxs[2]) = 100
    /\ stdout[4].kind = "best" /\ stdout[4].score = 20

\* C9: show_now outputs a Score line iff is_day equals 0; for is_day = 1 and
\* for an absent is_day it outputs the day message instead; the line of raw
\* display fields is output in every case.
C9_ScoreIffNight ==
    pc = "shown_now" =>
        LET night == args.fc.current.is_day = Num(0)
        IN  /\ (\E l \in 1 .. Len(stdout) : stdout[l].kind = "score") <=> night
            /\ (\E l \in 1 .. Len(stdout) : stdout[l].kind = "day") <=> ~night
            /\ \E l \in 1 .. Len(stdout) :
                  /\ stdout[l].kind = "fields"
                  /\ stdout[l].cloud = locals.cloud
                  /\ stdout[l].wind = locals.wind
                  /\ stdout[l].vis_km = locals.vis_km
                  /\ stdout[l].T = args.fc.current.temperature_2m
                  /\ stdout[l].Tw = args.fc.current.apparent_temperature
            /\ \A l \in 1 .. Len(stdout) :
                  stdout[l].kind = "score" => stdout[l].score = locals.score

\* is_day is absent: the fields and the day message, no Score
C9_Witness ==
    /\ pc = "shown_now"
    /\ args.fc.current.is_day = None
    /\ Len(stdout) = 4
    /\ stdout[3].kind = "fields"
    /\ stdout[4].kind = "day"

====
